---------------------------- MODULE Spec2Model ----------------------------
(***************************************************************************)
(* A model of the distributed position-based-fluids simulation:            *)
(*   - the partition controller of TunableParameters                       *)
(*     (src/src/tunable_parameters.cpp), and                               *)
(*   - the compute ranks' main loop, start_simulation (src/src/fluid.c).   *)
(*                                                                         *)
(* Lengths are fixed-point integers: One units make 1.0, so the 0.001 of   *)
(* boundaryConditions is one unit and the 0.1 step of the smoothing radius *)
(* is One \div 10 units.  Float rounding is not modelled.                  *)
(***************************************************************************)
EXTENDS Integers, Sequences, FiniteSets, TLC

\* Fixed-point scale: the number of model units in the 1.0f of the source.
One == 1000

\* Number of compute ranks (MPI_Comm_size of MPI_COMM_COMPUTE).
NumProcs == 3

Ranks == 0 .. (NumProcs - 1)

\* boundary_global: "Assume AABB with min point being axis origin".
min_x == 0
max_x == 12 * One

\* The step and the limits of the smoothing radius.
RadiusStep == One \div 10
MaxRadius == 5 * One
MinRadius == 0
InitRadius == 4 * RadiusStep

VARIABLES
    proc_starts,                \* TunableParameters::proc_starts[rank]
    proc_ends,                  \* TunableParameters::proc_ends[rank]
    num_compute_procs_active,   \* TunableParameters::num_compute_procs_active
    smoothing_radius,           \* TunableParameters::smoothing_radius
    last_op,                    \* history: the operation that made this state
    pre                         \* history: the table before that operation

partVars == <<proc_starts, proc_ends, num_compute_procs_active,
              smoothing_radius, last_op, pre>>

\* The main loop of the compute ranks, start_simulation.
VARIABLES
    steps_per_frame,    \* fluid_sim.params->steps_per_frame
    pc,                 \* per rank: index in Program of the next statement, 0 when the loop was left
    sub_step,           \* per rank: int sub_step
    kill_sim,           \* per rank: fluid_sim.params->tunable_params.kill_sim
    coords_req,         \* per rank: MPI_Request coords_req, "null" or "active"
    mailbox,            \* per rank: the scattered record not yet received
    coords_msg,         \* per rank: coordinate messages sent and not yet received by the render process
    render_pc,          \* render process: "scatter", "recv" or "done"
    render_got,         \* render process: ranks whose coordinates of this frame it holds
    frame,              \* render process: frames scattered so far
    iter,               \* history, per rank: loop iterations completed
    phases,             \* history, per rank: phases completed in this iteration
    nsend,              \* history, per rank: MPI_Isend calls so far
    since_send,         \* history, per rank: phases completed since the outstanding MPI_Isend
    wait_gap            \* history, per rank: since_send when MPI_Wait last completed a send

loopVars == <<steps_per_frame, pc, sub_step, kill_sim, coords_req, mailbox,
              coords_msg, render_pc, render_got, frame, iter, phases, nsend,
              since_send, wait_gap>>

\* The particles of the compute ranks and their migration; the ranks go
\* through the phases of a sub-step together.
VARIABLES
    particles,          \* per rank: fluid_particle_pointers[0 .. number_fluid_particles_local-1]
    px,                 \* per particle: the committed position p->x
    node_start_x,       \* per rank: tunable_params.node_start_x
    node_end_x,         \* per rank: tunable_params.node_end_x
    sim_pc,             \* the phase the ranks are about to run
    sim_sub_step,       \* int sub_step
    ops_in_frame,       \* render process: partition operations since the last scatter
    count_before,       \* history: sum of number_fluid_particles_local before the last migration
    moved               \* history: particles the last migration sent left and right

simVars == <<particles, px, node_start_x, node_end_x, sim_pc, sim_sub_step,
             ops_in_frame, count_before, moved>>

\* The tunables the solver divides by.
VARIABLES
    rest_density        \* TunableParameters::rest_density

tuneVars == <<rest_density>>

\* One particle through the position and velocity updates of a sub-step.
VARIABLES
    p_x, p_y,           \* p->x, p->y: the committed position
    x_star, y_star,     \* p->x_star, p->y_star: the predicted position
    v_x, v_y,           \* p->v_x, p->v_y
    mover,              \* tunable_params: mover_center_x, mover_center_y, mover_width
    pt_pc,              \* the pass that runs next
    pt_si,              \* solve iterations done in this sub-step
    pt_steps,           \* sub-steps done
    pt_last,            \* history: the function that ran last
    v_in                \* history: the velocity handed to checkVelocity

ptVars == <<p_x, p_y, x_star, y_star, v_x, v_y, mover, pt_pc, pt_si, pt_steps,
            pt_last, v_in>>

\* The velocities of one rank's local and halo particles in a sub-step.
VARIABLES
    n_local,            \* params->number_fluid_particles_local
    n_halo,             \* params->number_halo_particles
    neighbors,          \* per local slot: neighbors[i].fluid_neighbors, as slots
    v_fresh,            \* per slot: v_x, v_y were written by updateVelocity in this sub-step
    hv_pc,              \* the pass that runs next
    hv_read             \* history: the slots whose velocity XSPH_viscosity read

hvVars == <<n_local, n_halo, neighbors, v_fresh, hv_pc, hv_read>>

\* The densities of one rank's local particles in the solve iterations.
VARIABLES
    dn_pos,             \* per slot: <<x_star, y_star>>
    dn_neighbors,       \* per local slot: neighbors[i].fluid_neighbors, as slots
    density,            \* per local slot: p->density
    dn_h,               \* tunable_params.smoothing_radius
    dn_si,              \* int si: solve iterations whose compute_densities has run
    dn_last             \* history: the pass that ran last

dnVars == <<dn_pos, dn_neighbors, density, dn_h, dn_si, dn_last>>

\* The partition controller with one more step of history.
VARIABLES
    rt_prev             \* history: the operation before the last one and the table before it

rtVars == <<rt_prev>>

\* The out-of-bounds lists of the compute ranks.
VARIABLES
    out_of_bounds,      \* per rank: oob_pointer_indices_left / _right, the counts are their lengths
    ob_scanned,         \* history: per rank, the local particles the scan just went over
    ob_steps            \* sub-steps followed so far

obVars == <<out_of_bounds, ob_scanned, ob_steps>>

\* The gravity control of the render process.
VARIABLES
    g,                  \* TunableParameters::g
    g_last              \* history: the call that ran last and g before it

gravVars == <<g, g_last>>

moreVars == <<rtVars, obVars, gravVars>>

\* The variables of the models of single functions and passes.
extraVars == <<tuneVars, ptVars, hvVars, dnVars, moreVars>>

vars == <<partVars, loopVars, simVars, extraVars>>

\* What the partition controller alone, the main loop alone and the
\* migration model leave as they are.
notPart == <<loopVars, simVars, extraVars>>
notLoop == <<partVars, simVars, extraVars>>

-----------------------------------------------------------------------------
(* The partition table as a value.                                         *)

Table(starts, ends, active, h) ==
    [starts |-> starts, ends |-> ends, active |-> active, h |-> h]

CurTable == Table(proc_starts, proc_ends, num_compute_procs_active,
                  smoothing_radius)

\* The table the simulation starts with: every compute rank active, the
\* global x extent cut into NumProcs equal intervals.
InitStarts == [r \in Ranks |-> min_x + (r * (max_x - min_x)) \div NumProcs]
InitEnds == [r \in Ranks |-> min_x + ((r + 1) * (max_x - min_x)) \div NumProcs]

\* remove_partition with the "+ 1.0" left out: the removed rank's interval
\* is put on the old end itself.
remove_partition_no_offset(t) ==
    IF t.active = 1 THEN t
    ELSE LET removed_rank == t.active - 1
             position == t.ends[removed_rank]
         IN  [t EXCEPT !.ends = [t.ends EXCEPT ![removed_rank - 1] = t.ends[removed_rank],
                                               ![removed_rank] = position],
                       !.starts = [t.starts EXCEPT ![removed_rank] = position],
                       !.active = t.active - 1]

\* remove_partition returning early only when no rank is active: called with
\* one active rank it moves rank 0 out of the domain.
remove_partition_guard_zero(t) ==
    IF t.active = 0 THEN t
    ELSE LET removed_rank == t.active - 1
             position == t.ends[removed_rank] + One
         IN  [t EXCEPT !.ends = [r \in Ranks |->
                                    IF r = removed_rank THEN position
                                    ELSE IF r = removed_rank - 1
                                         THEN t.ends[removed_rank]
                                         ELSE t.ends[r]],
                       !.starts = [t.starts EXCEPT ![removed_rank] = position],
                       !.active = t.active - 1]

\* remove_partition that leaves the left neighbour's end where it was: the
\* removed rank's interval is dropped rather than merged.
remove_partition_no_merge(t) ==
    IF t.active = 1 THEN t
    ELSE LET removed_rank == t.active - 1
             position == t.ends[removed_rank] + One
         IN  [t EXCEPT !.ends = [t.ends EXCEPT ![removed_rank] = position],
                       !.starts = [t.starts EXCEPT ![removed_rank] = position],
                       !.active = t.active - 1]

\* TunableParameters::remove_partition
remove_partition(t) ==
    IF t.active = 1 THEN t
    ELSE LET removed_rank == t.active - 1
             position == t.ends[removed_rank] + One
         IN  [t EXCEPT !.ends = [t.ends EXCEPT ![removed_rank - 1] = t.ends[removed_rank],
                                               ![removed_rank] = position],
                       !.starts = [t.starts EXCEPT ![removed_rank] = position],
                       !.active = t.active - 1]

\* add_partition comparing the length with 1.0*smoothing_radius, so that a
\* last interval between 1.0 and 2.5 radii wide is still split.
add_partition_narrow(t) ==
    IF t.active = NumProcs THEN t
    ELSE LET last == t.active - 1
             length == t.ends[last] - t.starts[last]
         IN  IF length < t.h THEN t
             ELSE LET new_x == t.starts[last] + length \div 2
                  IN  [t EXCEPT !.ends = [t.ends EXCEPT ![t.active] = t.ends[last],
                                                        ![last] = new_x],
                                !.starts = [t.starts EXCEPT ![t.active] = new_x],
                                !.active = t.active + 1]

\* add_partition copying the old end to the new rank only after the old end
\* was overwritten by the midpoint.
add_partition_late_copy(t) ==
    IF t.active = NumProcs THEN t
    ELSE LET last == t.active - 1
             length == t.ends[last] - t.starts[last]
         IN  IF 2 * length < 5 * t.h THEN t
             ELSE LET new_x == t.starts[last] + length \div 2
                  IN  [t EXCEPT !.ends = [t.ends EXCEPT ![t.active] = new_x,
                                                        ![last] = new_x],
                                !.starts = [t.starts EXCEPT ![t.active] = new_x],
                                !.active = t.active + 1]

\* add_partition without "proc_ends[active] = proc_ends[active-1]": the new
\* rank keeps whatever end it had while it was inactive
add_partition_no_end_copy(t) ==
    IF t.active = NumProcs THEN t
    ELSE LET last == t.active - 1
             length == t.ends[last] - t.starts[last]
         IN  IF 2 * length < 5 * t.h THEN t
             ELSE LET new_x == t.starts[last] + length \div 2
                  IN  [t EXCEPT !.ends = [t.ends EXCEPT ![last] = new_x],
                                !.starts = [t.starts EXCEPT ![t.active] = new_x],
                                !.active = t.active + 1]

\* TunableParameters::add_partition; length < 2.5*smoothing_radius is
\* 2*length < 5*smoothing_radius.
add_partition(t) ==
    IF t.active = NumProcs THEN t
    ELSE LET last == t.active - 1
             length == t.ends[last] - t.starts[last]
         IN  IF 2 * length < 5 * t.h THEN t
             ELSE LET new_x == t.starts[last] + length \div 2
                  IN  [t EXCEPT !.ends = [t.ends EXCEPT ![t.active] = t.ends[last],
                                                        ![last] = new_x],
                                !.starts = [t.starts EXCEPT ![t.active] = new_x],
                                !.active = t.active + 1]

\* The indices remove_partition uses on proc_starts and proc_ends:
\* removed_rank-1 and removed_rank, when it does not return at the guard.
remove_partition_indices(t) ==
    IF t.active = 1 THEN {}
    ELSE LET removed_rank == t.active - 1
         IN  {removed_rank - 1, removed_rank}

\* add_partition's indices without the "active == num_compute_procs" return
add_partition_indices_unguarded(t) ==
    LET last == t.active - 1
        length == t.ends[last] - t.starts[last]
    IN  IF 2 * length < 5 * t.h THEN {last} ELSE {last, t.active}

\* The indices add_partition uses on proc_starts and proc_ends: active-1 for
\* the length, and active as well when it goes on to split.
add_partition_indices(t) ==
    IF t.active = NumProcs THEN {}
    ELSE LET last == t.active - 1
             length == t.ends[last] - t.starts[last]
         IN  IF 2 * length < 5 * t.h THEN {last} ELSE {last, t.active}

\* TunableParameters::decrease_smoothing_radius
decrease_smoothing_radius(h) ==
    IF h > MinRadius THEN h - RadiusStep ELSE h

\* TunableParameters::increase_smoothing_radius
increase_smoothing_radius(h) ==
    IF h < MaxRadius THEN h + RadiusStep ELSE h

-----------------------------------------------------------------------------
(* The partition controller as a state machine: the render process calls   *)
(* the operations in any order.                                            *)

SetTable(t, op) ==
    /\ proc_starts' = t.starts
    /\ proc_ends' = t.ends
    /\ num_compute_procs_active' = t.active
    /\ smoothing_radius' = t.h
    /\ last_op' = op
    /\ pre' = CurTable

TableStart(h) ==
    /\ proc_starts = InitStarts
    /\ proc_ends = InitEnds
    /\ num_compute_procs_active = NumProcs
    /\ smoothing_radius = h
    /\ last_op = "none"
    /\ pre = Table(InitStarts, InitEnds, NumProcs, h)

InitTable == TableStart(InitRadius)

RemovePartition == SetTable(remove_partition(CurTable), "remove")

AddPartition == SetTable(add_partition(CurTable), "add")

DecreaseSmoothingRadius ==
    SetTable([CurTable EXCEPT !.h = decrease_smoothing_radius(smoothing_radius)],
             "dec_h")

IncreaseSmoothingRadius ==
    SetTable([CurTable EXCEPT !.h = increase_smoothing_radius(smoothing_radius)],
             "inc_h")

IdlePart == InitTable

-----------------------------------------------------------------------------
(* The rest density, as the render process's controls change it.           *)

DensityStep == One \div 100
MaxDensity == 5 * One
MinDensity == 0 - 5 * One
InitDensity == One

\* TunableParameters::increase_density
increase_density(d) == IF d < MaxDensity THEN d + DensityStep ELSE d

\* TunableParameters::decrease_density
decrease_density(d) == IF d > MinDensity THEN d - DensityStep ELSE d

IdleTune == rest_density = InitDensity

IdlePt ==
    /\ p_x = min_x
    /\ p_y = min_x
    /\ x_star = min_x
    /\ y_star = min_x
    /\ v_x = 0
    /\ v_y = 0
    /\ mover = [center_x |-> min_x, center_y |-> min_x, width |-> 0]
    /\ pt_pc = "predict_positions"
    /\ pt_si = 0
    /\ pt_steps = 0
    /\ pt_last = "none"
    /\ v_in = <<0, 0>>

IdleHv ==
    /\ n_local = 1
    /\ n_halo = 0
    /\ neighbors = <<{}>>
    /\ v_fresh = <<FALSE>>
    /\ hv_pc = "finish_halo_exchange"
    /\ hv_read = {}

IdleDn ==
    /\ dn_pos = <<>>
    /\ dn_neighbors = <<>>
    /\ density = <<>>
    /\ dn_h = InitRadius
    /\ dn_si = 0
    /\ dn_last = "none"

IdleRt ==
    rt_prev = [op |-> "none", table |-> Table(InitStarts, InitEnds, NumProcs, InitRadius)]

IdleOb ==
    /\ out_of_bounds = [r \in Ranks |-> [left |-> <<>>, right |-> <<>>]]
    /\ ob_scanned = [r \in Ranks |-> <<>>]
    /\ ob_steps = 0

IdleGrav ==
    /\ g = 0
    /\ g_last = [op |-> "none", g |-> 0]

IdleMore == IdleRt /\ IdleOb /\ IdleGrav

IdleExtra == IdleTune /\ IdlePt /\ IdleHv /\ IdleDn /\ IdleMore

-----------------------------------------------------------------------------
(* Particles and their migration between the ranks.                        *)

\* Particles in the simulation, and partition operations the render process
\* applies at most between two scatters.
NumParticles == 2
MaxOpsPerFrame == 2

ParticleIds == 1 .. NumParticles

\* The farthest a committed position moves in one sub-step.
MoveStep == 3 * One

\* The smoothing radius of the migration model: add_partition leaves no
\* interval narrower than MoveStep, so that a particle never crosses a whole
\* interval in one sub-step.
SimRadius == 17 * RadiusStep
Moves == {0 - MoveStep, 0, MoveStep}

\* The 0.001f of boundaryConditions.
ClampEps == One \div 1000

\* boundaryConditions, x axis: the clamp to the global boundary.
BoundaryClampX(x) ==
    IF x < min_x THEN min_x
    ELSE IF x > max_x THEN max_x - ClampEps
    ELSE x

\* number_fluid_particles_local
number_fluid_particles_local(r) == Len(particles[r])

\* p->x of the particle at index i (from 0) of rank r.
XAt(r, i) == px[particles[r][i + 1]]

Indices(r) == [k \in 1 .. Len(particles[r]) |-> k - 1]

InLeft(r, i) == XAt(r, i) < node_start_x[r]
InRight(r, i) == ~ InLeft(r, i) /\ XAt(r, i) > node_end_x[r]

\* identify_oob_particles with <= and >= for < and >: a particle on the
\* rank's own boundary is queued too.
identify_oob_particles_inclusive(r) ==
    [left |-> SelectSeq(Indices(r), LAMBDA i : XAt(r, i) <= node_start_x[r]),
     right |-> SelectSeq(Indices(r),
                         LAMBDA i : ~ (XAt(r, i) <= node_start_x[r])
                                    /\ XAt(r, i) >= node_end_x[r])]

\* identify_oob_particles: the indices queued left and right, in the order
\* of the scan.
identify_oob_particles(r) ==
    [left |-> SelectSeq(Indices(r), LAMBDA i : InLeft(r, i)),
     right |-> SelectSeq(Indices(r), LAMBDA i : InRight(r, i))]

SeqRange(q) == {q[k] : k \in 1 .. Len(q)}

\* The particles at the queued indices.
Queued(r, idx) == [k \in 1 .. Len(idx) |-> particles[r][idx[k] + 1]]

\* transfer_OOB_particles: the queued particles leave the rank's list; those
\* the left neighbour queued right and the right neighbour queued left are
\* appended.  Rank 0 has no left and the last rank no right neighbour
\* (MPI_PROC_NULL).
transfer_OOB_particles(r) ==
    LET oob == identify_oob_particles(r)
        gone == SeqRange(oob.left) \cup SeqRange(oob.right)
        kept == SelectSeq(Indices(r), LAMBDA i : i \notin gone)
        from_left == IF r = 0 THEN <<>>
                     ELSE Queued(r - 1, identify_oob_particles(r - 1).right)
        from_right == IF r = NumProcs - 1 THEN <<>>
                      ELSE Queued(r + 1, identify_oob_particles(r + 1).left)
    IN  Queued(r, kept) \o from_left \o from_right

RECURSIVE SumOver(_, _)
SumOver(f, S) ==
    IF S = {} THEN 0
    ELSE LET r == CHOOSE r \in S : TRUE IN f[r] + SumOver(f, S \ {r})

TotalLocal == SumOver([r \in Ranks |-> number_fluid_particles_local(r)], Ranks)

\* Where the particles start, and the rank that owns each.
InitX(p) == ((9 * p) % 12) * One
InitOwner(p) == CHOOSE r \in Ranks : InitStarts[r] <= InitX(p) /\ InitX(p) < InitEnds[r]

RECURSIVE SeqOfSet(_)
SeqOfSet(S) ==
    IF S = {} THEN <<>>
    ELSE LET m == CHOOSE m \in S : \A o \in S : m <= o
         IN  <<m>> \o SeqOfSet(S \ {m})

simOthers == <<loopVars, last_op, pre, extraVars>>

\* MPI_Scatterv in the frame-boundary sub-step: every rank gets its interval
\* of the render process's table.
SimScatterv ==
    /\ sim_pc = "MPI_Scatterv"
    /\ sim_pc' = "identify_oob_particles"
    /\ IF sim_sub_step = steps_per_frame - 1
       THEN /\ node_start_x' = proc_starts
            /\ node_end_x' = proc_ends
            /\ ops_in_frame' = 0
       ELSE UNCHANGED <<node_start_x, node_end_x, ops_in_frame>>
    /\ UNCHANGED <<particles, px, sim_sub_step, count_before, moved>>
    /\ UNCHANGED <<proc_starts, proc_ends, num_compute_procs_active, smoothing_radius>>
    /\ UNCHANGED simOthers

\* identify_oob_particles on every rank, with the transfer it ends in.
SimIdentifyOobParticles ==
    /\ sim_pc = "identify_oob_particles"
    /\ sim_pc' = "find_all_neighbors"
    /\ particles' = [r \in Ranks |-> transfer_OOB_particles(r)]
    /\ count_before' = TotalLocal
    /\ moved' = <<SumOver([r \in Ranks |-> Len(identify_oob_particles(r).left)], Ranks),
                  SumOver([r \in Ranks |-> Len(identify_oob_particles(r).right)], Ranks)>>
    /\ UNCHANGED <<px, node_start_x, node_end_x, sim_sub_step, ops_in_frame>>
    /\ UNCHANGED <<proc_starts, proc_ends, num_compute_procs_active, smoothing_radius>>
    /\ UNCHANGED simOthers

\* The halo exchange and find_all_neighbors: the particles stay where they
\* are.
SimFindAllNeighbors ==
    /\ sim_pc = "find_all_neighbors"
    /\ sim_pc' = "update_positions"
    /\ moved' = <<0, 0>>
    /\ UNCHANGED <<particles, px, node_start_x, node_end_x, sim_sub_step,
                   ops_in_frame, count_before>>
    /\ UNCHANGED <<proc_starts, proc_ends, num_compute_procs_active, smoothing_radius>>
    /\ UNCHANGED simOthers

\* The solve, update_positions and, in the next iteration, predict_positions:
\* every particle's committed x moves by one of Moves and is clamped by
\* boundaryConditions; then the sub_step update.
SimUpdatePositions ==
    /\ sim_pc = "update_positions"
    /\ sim_pc' = "MPI_Scatterv"
    /\ \E d \in [ParticleIds -> Moves] :
          px' = [p \in ParticleIds |-> BoundaryClampX(px[p] + d[p])]
    /\ sim_sub_step' = IF sim_sub_step = steps_per_frame - 1 THEN 0
                       ELSE sim_sub_step + 1
    /\ UNCHANGED <<particles, node_start_x, node_end_x, ops_in_frame,
                   count_before, moved>>
    /\ UNCHANGED <<proc_starts, proc_ends, num_compute_procs_active, smoothing_radius>>
    /\ UNCHANGED simOthers

\* The render process applies a partition operation to its table.  The ranks
\* read the table only in the scatter of the frame-boundary sub-step, so the
\* operations of a frame are taken right before it.
SimPartitionOp(t) ==
    /\ sim_pc = "MPI_Scatterv"
    /\ sim_sub_step = steps_per_frame - 1
    /\ ops_in_frame < MaxOpsPerFrame
    /\ ops_in_frame' = ops_in_frame + 1
    /\ proc_starts' = t.starts
    /\ proc_ends' = t.ends
    /\ num_compute_procs_active' = t.active
    /\ UNCHANGED <<smoothing_radius, particles, px, node_start_x, node_end_x,
                   sim_pc, sim_sub_step, count_before, moved>>
    /\ UNCHANGED simOthers

SimRemovePartition == SimPartitionOp(remove_partition(CurTable))

SimAddPartition == SimPartitionOp(add_partition(CurTable))

SimStart ==
    /\ particles = [r \in Ranks |->
                      SeqOfSet({p \in ParticleIds : InitOwner(p) = r})]
    /\ px = [p \in ParticleIds |-> InitX(p)]
    /\ node_start_x = InitStarts
    /\ node_end_x = InitEnds
    /\ sim_pc = "MPI_Scatterv"
    /\ sim_sub_step = 0
    /\ ops_in_frame = 0
    /\ count_before = NumParticles
    /\ moved = <<0, 0>>

IdleSim == SimStart

-----------------------------------------------------------------------------
(* start_simulation: the main loop of a compute rank.                      *)

\* Largest steps_per_frame tried, and the frames the render process runs
\* at most before it sets kill_sim.
MaxStepsPerFrame == 2
MaxFrames == 2

\* The compute ranks running the loop.
NumLoopRanks == 2

LoopRanks == 0 .. (NumLoopRanks - 1)

\* int solve_iterations = 4
solve_iterations == 4

\* The loop head with find_all_neighbors called before the halo exchange.
PreSolveNeighborsFirst ==
    <<"apply_gravity", "predict_positions", "MPI_Wait", "MPI_Scatterv",
      "kill_check", "identify_oob_particles", "transfer_OOB_particles",
      "find_all_neighbors", "start_halo_exchange", "finish_halo_exchange">>

\* The loop head with kill_sim tested before the scatter that sets it.
PreSolveKillCheckFirst ==
    <<"apply_gravity", "predict_positions", "MPI_Wait", "kill_check",
      "MPI_Scatterv", "identify_oob_particles", "transfer_OOB_particles",
      "start_halo_exchange", "finish_halo_exchange", "find_all_neighbors">>

\* The loop head with the wait for the coordinate send at the very start.
PreSolveWaitFirst ==
    <<"MPI_Wait", "apply_gravity", "predict_positions", "MPI_Scatterv",
      "kill_check", "identify_oob_particles", "transfer_OOB_particles",
      "start_halo_exchange", "finish_halo_exchange", "find_all_neighbors">>

\* The statements before the solve loop, in program order.  The blocking
\* exchanges are two statements: the posting of the own data and the
\* completion, which needs the neighbours' data.
PreSolve ==
    <<"apply_gravity", "predict_positions", "MPI_Wait", "MPI_Scatterv",
      "kill_check", "identify_oob_particles", "transfer_OOB_particles",
      "start_halo_exchange", "finish_halo_exchange", "find_all_neighbors">>

\* The body of the solve loop.
SolveBody ==
    <<"compute_densities", "calculate_lambda", "update_halo_lambdas",
      "update_halo_lambdas_done", "update_dp", "update_dp_positions",
      "update_halo_positions", "update_halo_positions_done">>

\* The statements after the solve loop.
PostSolve ==
    <<"updateVelocities", "XSPH_viscosity", "update_positions", "MPI_Isend",
      "sub_step_update">>

RECURSIVE Repeat(_, _)
Repeat(seq, n) == IF n = 0 THEN <<>> ELSE seq \o Repeat(seq, n - 1)

\* The loop body with the solve loop unrolled.
Program == PreSolve \o Repeat(SolveBody, solve_iterations) \o PostSolve

ProgramLen == Len(Program)

Label(r) == IF pc[r] = 0 THEN "done" ELSE Program[pc[r]]

\* int si of the solve loop.
si(r) ==
    IF pc[r] <= Len(PreSolve) THEN 0
    ELSE IF pc[r] > Len(PreSolve) + solve_iterations * Len(SolveBody)
         THEN solve_iterations
         ELSE (pc[r] - Len(PreSolve) - 1) \div Len(SolveBody)

\* The frame boundary taken to be sub-step 0.
FrameBoundaryAtZero(r) == sub_step[r] = 0

\* Every sub-step taken to be a frame boundary.
FrameBoundaryAlways(r) == sub_step[r] >= 0

\* sub_step == fluid_sim.params->steps_per_frame-1
FrameBoundary(r) == sub_step[r] = steps_per_frame - 1

\* The compute ranks a rank exchanges with: rank-1 and rank+1 where they
\* exist.
Neighbors(r) == {q \in LoopRanks : q = r - 1 \/ q = r + 1}

\* How far a rank has come: iterations completed, then statements.  A rank
\* that left the loop stays where it left.
Progress(r) == iter[r] * (ProgramLen + 1) + pc[r]

\* The neighbours have posted their side of the exchange this rank is in.
Arrived(r) == \A q \in Neighbors(r) : Progress(q) >= Progress(r)

Record(r, name) ==
    /\ phases' = [phases EXCEPT ![r] = Append(@, name)]
    /\ since_send' = [since_send EXCEPT ![r] =
                        IF coords_req[r] = "active" THEN Append(@, name) ELSE @]

Advance(r) == pc' = [pc EXCEPT ![r] = pc[r] + 1]

\* A statement that touches nothing but the rank's own particles.
LocalPhase(r, name) ==
    /\ Label(r) = name
    /\ Advance(r)
    /\ Record(r, name)
    /\ UNCHANGED notLoop
    /\ UNCHANGED <<steps_per_frame, sub_step, kill_sim, coords_req, mailbox,
                   coords_msg, render_pc, render_got, frame, iter, nsend,
                   wait_gap>>

\* The posting half of a blocking exchange with the neighbours.
PostExchange(r, name) ==
    /\ Label(r) = name
    /\ Advance(r)
    /\ UNCHANGED notLoop
    /\ UNCHANGED <<steps_per_frame, sub_step, kill_sim, coords_req, mailbox,
                   coords_msg, render_pc, render_got, frame, iter, nsend,
                   wait_gap, phases, since_send>>

\* The completing half: the rank goes on once its neighbours have posted.
CompleteExchange(r, label, name) ==
    /\ Label(r) = label
    /\ Arrived(r)
    /\ Advance(r)
    /\ Record(r, name)
    /\ UNCHANGED notLoop
    /\ UNCHANGED <<steps_per_frame, sub_step, kill_sim, coords_req, mailbox,
                   coords_msg, render_pc, render_got, frame, iter, nsend,
                   wait_gap>>

ApplyGravity(r) == LocalPhase(r, "apply_gravity")

PredictPositions(r) == LocalPhase(r, "predict_positions")

\* The wait looked for in sub-step 1 instead of sub-step 0.
WaitDueAtOne(r) == sub_step[r] = 1 /\ coords_req[r] # "null"

\* sub_step == 0 and coords_req != MPI_REQUEST_NULL
WaitDue(r) == sub_step[r] = 0 /\ coords_req[r] # "null"

\* if(sub_step == 0) if(coords_req != MPI_REQUEST_NULL) MPI_Wait(...)
CoordsWait(r) ==
    /\ Label(r) = "MPI_Wait"
    /\ Advance(r)
    /\ IF WaitDue(r)
       THEN /\ coords_req' = [coords_req EXCEPT ![r] = "null"]
            /\ wait_gap' = [wait_gap EXCEPT ![r] = since_send[r]]
            /\ since_send' = [since_send EXCEPT ![r] = <<>>]
       ELSE UNCHANGED <<coords_req, wait_gap, since_send>>
    /\ UNCHANGED notLoop
    /\ UNCHANGED <<steps_per_frame, sub_step, kill_sim, mailbox, coords_msg,
                   render_pc, render_got, frame, iter, nsend, phases>>

\* if(sub_step == steps_per_frame-1) MPI_Scatterv(...)
Scatterv(r) ==
    /\ Label(r) = "MPI_Scatterv"
    /\ Advance(r)
    /\ IF FrameBoundary(r)
       THEN /\ mailbox[r] # "empty"
            /\ kill_sim' = [kill_sim EXCEPT ![r] = (mailbox[r] = "kill")]
            /\ mailbox' = [mailbox EXCEPT ![r] = "empty"]
            /\ Record(r, "MPI_Scatterv")
       ELSE UNCHANGED <<kill_sim, mailbox, phases, since_send>>
    /\ UNCHANGED notLoop
    /\ UNCHANGED <<steps_per_frame, sub_step, coords_req, coords_msg,
                   render_pc, render_got, frame, iter, nsend, wait_gap>>

\* if(kill_sim) break
KillCheck(r) ==
    /\ Label(r) = "kill_check"
    /\ pc' = [pc EXCEPT ![r] = IF kill_sim[r] THEN 0 ELSE pc[r] + 1]
    /\ UNCHANGED notLoop
    /\ UNCHANGED <<steps_per_frame, sub_step, kill_sim, coords_req, mailbox,
                   coords_msg, render_pc, render_got, frame, iter, nsend,
                   wait_gap, phases, since_send>>

IdentifyOobParticles(r) == PostExchange(r, "identify_oob_particles")

TransferOobParticles(r) ==
    CompleteExchange(r, "transfer_OOB_particles", "identify_oob_particles")

StartHaloExchange(r) == LocalPhase(r, "start_halo_exchange")

FinishHaloExchange(r) ==
    CompleteExchange(r, "finish_halo_exchange", "finish_halo_exchange")

FindAllNeighbors(r) == LocalPhase(r, "find_all_neighbors")

ComputeDensities(r) == LocalPhase(r, "compute_densities")

CalculateLambda(r) == LocalPhase(r, "calculate_lambda")

UpdateHaloLambdas(r) == PostExchange(r, "update_halo_lambdas")

UpdateHaloLambdasDone(r) ==
    CompleteExchange(r, "update_halo_lambdas_done", "update_halo_lambdas")

UpdateDp(r) == LocalPhase(r, "update_dp")

UpdateDpPositions(r) == LocalPhase(r, "update_dp_positions")

UpdateHaloPositions(r) == PostExchange(r, "update_halo_positions")

UpdateHaloPositionsDone(r) ==
    CompleteExchange(r, "update_halo_positions_done", "update_halo_positions")

UpdateVelocities(r) == LocalPhase(r, "updateVelocities")

XSPHViscosity(r) == LocalPhase(r, "XSPH_viscosity")

UpdatePositions(r) == LocalPhase(r, "update_positions")

\* if(sub_step == steps_per_frame-1) { pack the coordinates; MPI_Isend(...) }
PackAndSend(r) ==
    /\ Label(r) = "MPI_Isend"
    /\ Advance(r)
    /\ IF FrameBoundary(r)
       THEN /\ coords_req' = [coords_req EXCEPT ![r] = "active"]
            /\ coords_msg' = [coords_msg EXCEPT ![r] = @ + 1]
            /\ nsend' = [nsend EXCEPT ![r] = @ + 1]
            /\ phases' = [phases EXCEPT ![r] = Append(@, "MPI_Isend")]
            /\ since_send' = [since_send EXCEPT ![r] = <<>>]
       ELSE UNCHANGED <<coords_req, coords_msg, nsend, phases, since_send>>
    /\ UNCHANGED notLoop
    /\ UNCHANGED <<steps_per_frame, sub_step, kill_sim, mailbox, render_pc,
                   render_got, frame, iter, wait_gap>>

\* if(sub_step == steps_per_frame-1) sub_step = 0; else sub_step++;
\* and back to the head of while(1).
SubStepUpdate(r) ==
    /\ Label(r) = "sub_step_update"
    /\ sub_step' = [sub_step EXCEPT ![r] = IF FrameBoundary(r) THEN 0 ELSE @ + 1]
    /\ pc' = [pc EXCEPT ![r] = 1]
    /\ iter' = [iter EXCEPT ![r] = @ + 1]
    /\ phases' = [phases EXCEPT ![r] = <<>>]
    /\ UNCHANGED notLoop
    /\ UNCHANGED <<steps_per_frame, kill_sim, coords_req, mailbox, coords_msg,
                   render_pc, render_got, frame, nsend, since_send, wait_gap>>

\* The render process scatters the tunables of a frame to every compute
\* rank; kill is TRUE when the user has ended the simulation.
RenderScatter(kill) ==
    /\ render_pc = "scatter"
    /\ kill \/ frame < MaxFrames
    /\ mailbox' = [r \in LoopRanks |-> IF kill THEN "kill" ELSE "run"]
    /\ frame' = frame + 1
    /\ render_pc' = IF kill THEN "done" ELSE "recv"
    /\ UNCHANGED notLoop
    /\ UNCHANGED <<steps_per_frame, pc, sub_step, kill_sim, coords_req,
                   coords_msg, render_got, iter, phases, nsend, since_send,
                   wait_gap>>

\* The render process receives the coordinates of one rank; with those of
\* every rank it goes on to the next frame.
RenderRecv(r) ==
    /\ render_pc = "recv"
    /\ r \notin render_got
    /\ coords_msg[r] > 0
    /\ coords_msg' = [coords_msg EXCEPT ![r] = @ - 1]
    /\ render_got' = IF render_got \cup {r} = LoopRanks THEN {} ELSE render_got \cup {r}
    /\ render_pc' = IF render_got \cup {r} = LoopRanks THEN "scatter" ELSE "recv"
    /\ UNCHANGED notLoop
    /\ UNCHANGED <<steps_per_frame, pc, sub_step, kill_sim, coords_req,
                   mailbox, frame, iter, phases, nsend, since_send, wait_gap>>

LoopStart ==
    /\ pc = [r \in LoopRanks |-> 1]
    /\ sub_step = [r \in LoopRanks |-> 0]
    /\ kill_sim = [r \in LoopRanks |-> FALSE]
    /\ coords_req = [r \in LoopRanks |-> "null"]
    /\ mailbox = [r \in LoopRanks |-> "empty"]
    /\ coords_msg = [r \in LoopRanks |-> 0]
    /\ render_pc = "scatter"
    /\ render_got = {}
    /\ frame = 0
    /\ iter = [r \in LoopRanks |-> 0]
    /\ phases = [r \in LoopRanks |-> <<>>]
    /\ nsend = [r \in LoopRanks |-> 0]
    /\ since_send = [r \in LoopRanks |-> <<>>]
    /\ wait_gap = [r \in LoopRanks |-> <<"none">>]

IdleLoop == steps_per_frame = 1 /\ LoopStart

InitSim ==
    /\ TableStart(SimRadius)
    /\ IdleExtra
    /\ steps_per_frame = MaxStepsPerFrame
    /\ LoopStart
    /\ SimStart

NextSim ==
    \/ SimScatterv
    \/ SimIdentifyOobParticles
    \/ SimFindAllNeighbors
    \/ SimUpdatePositions
    \/ SimRemovePartition
    \/ SimAddPartition

SpecSim == InitSim /\ [][NextSim]_vars

RankStep(r) ==
    \/ ApplyGravity(r)
    \/ PredictPositions(r)
    \/ CoordsWait(r)
    \/ Scatterv(r)
    \/ KillCheck(r)
    \/ IdentifyOobParticles(r)
    \/ TransferOobParticles(r)
    \/ StartHaloExchange(r)
    \/ FinishHaloExchange(r)
    \/ FindAllNeighbors(r)
    \/ ComputeDensities(r)
    \/ CalculateLambda(r)
    \/ UpdateHaloLambdas(r)
    \/ UpdateHaloLambdasDone(r)
    \/ UpdateDp(r)
    \/ UpdateDpPositions(r)
    \/ UpdateHaloPositions(r)
    \/ UpdateHaloPositionsDone(r)
    \/ UpdateVelocities(r)
    \/ XSPHViscosity(r)
    \/ UpdatePositions(r)
    \/ PackAndSend(r)
    \/ SubStepUpdate(r)

RenderStep ==
    \/ \E kill \in BOOLEAN : RenderScatter(kill)
    \/ \E r \in LoopRanks : RenderRecv(r)

InitLoop ==
    /\ IdlePart
    /\ IdleSim
    /\ IdleExtra
    /\ steps_per_frame \in 1 .. MaxStepsPerFrame
    /\ LoopStart

NextLoop ==
    \/ \E r \in LoopRanks : RankStep(r)
    \/ RenderStep

SpecLoop == InitLoop /\ [][NextLoop]_vars

\* Every rank and the render process keep running while they can.
SpecLoopFair == SpecLoop /\ WF_vars(NextLoop)

-----------------------------------------------------------------------------
(* Properties of the main loop, checked under SpecLoop.                    *)

IsPrefix(a, b) == Len(a) <= Len(b) /\ a = SubSeq(b, 1, Len(a))

\* The phases of one sub-step in the order the specification gives them;
\* boundary is TRUE in the frame-boundary sub-step.
ExpectedPhases(boundary) ==
    <<"apply_gravity", "predict_positions">>
    \o (IF boundary THEN <<"MPI_Scatterv">> ELSE <<>>)
    \o <<"identify_oob_particles", "start_halo_exchange",
         "finish_halo_exchange", "find_all_neighbors">>
    \o Repeat(<<"compute_densities", "calculate_lambda", "update_halo_lambdas",
                "update_dp", "update_dp_positions", "update_halo_positions">>, 4)
    \o <<"updateVelocities", "XSPH_viscosity", "update_positions">>
    \o (IF boundary THEN <<"MPI_Isend">> ELSE <<>>)

Exited(r) == pc[r] = 0

\* C2: in every sub-step the phases complete in the order gravity, predict,
\* (scatter), migration, halo exchange, neighbor refresh, 4 times density,
\* lambda, halo-lambda sync, dp, dp-apply, halo-position sync, then velocity
\* reconstruction, viscosity, position commit, (pack and send); a sub-step
\* not cut short by kill_sim completes them all.
C2_PhaseOrder ==
    \A r \in LoopRanks :
        /\ IsPrefix(phases[r], ExpectedPhases(FrameBoundary(r)))
        /\ Label(r) = "sub_step_update"
              => phases[r] = ExpectedPhases(FrameBoundary(r))

\* C2 witness: a rank has completed a frame-boundary sub-step after an
\* inner sub-step.
C2_Witness ==
    \E r \in LoopRanks :
        /\ Label(r) = "sub_step_update"
        /\ FrameBoundary(r)
        /\ iter[r] >= 1
        /\ steps_per_frame >= 2
        /\ Len(phases[r]) > 30

\* A rank that has received kill_sim does nothing but leave the loop, and
\* it leaves in the iteration of the scatter that delivered the flag, with
\* no migration or halo exchange after that scatter.
ExitsAtOnce ==
    /\ \A r \in LoopRanks : kill_sim[r] => Label(r) \in {"kill_check", "done"}
    /\ \A r \in LoopRanks :
          Exited(r) => /\ kill_sim[r]
                       /\ phases[r] = <<"apply_gravity", "predict_positions",
                                        "MPI_Scatterv">>
                       /\ iter[r] = frame * steps_per_frame - 1
    /\ \A r, q \in LoopRanks : (Exited(r) /\ Exited(q)) => iter[r] = iter[q]

\* C5: when kill_sim is scattered every compute rank leaves its loop in the
\* iteration in which the scatter delivered the flag, the same for all,
\* before any further migration or halo exchange, and every compute rank
\* eventually leaves: none stays blocked in an exchange with a rank that
\* has left.
C5_UniformExit ==
    /\ []ExitsAtOnce
    /\ (render_pc = "done") ~> (\A r \in LoopRanks : Exited(r))

\* C5 witness: the flag was scattered after a full frame; one rank has left
\* the loop and another has yet to receive the flag.
C5_Witness ==
    /\ render_pc = "done"
    /\ frame >= 2
    /\ \E r, q \in LoopRanks : Exited(r) /\ ~ Exited(q) /\ ~ kill_sim[q]

\* C6 as claimed: a rank that leaves the loop does so with sub_step = 0.
C6_ExitAtSubStepZero ==
    \A r \in LoopRanks : Exited(r) => sub_step[r] = 0

\* C6 as amended: a rank that leaves the loop because a scatter delivered
\* kill_sim does so in the iteration of that scatter, with
\* sub_step = steps_per_frame - 1.
C6_ExitAtFrameBoundary ==
    \A r \in LoopRanks : Exited(r) => sub_step[r] = steps_per_frame - 1

\* C6 witness: a rank has left the loop of a run with several sub-steps a
\* frame.
C6_Witness ==
    \E r \in LoopRanks : Exited(r) /\ steps_per_frame >= 2 /\ kill_sim[r]

\* The phases between a send and the wait for it hold a whole sub-step.
HoldsFullCycle(gap) ==
    \E i, j \in 1 .. Len(gap) :
        i < j /\ gap[i] = "apply_gravity" /\ gap[j] = "update_positions"

\* The coordinate sends a rank has issued: one per frame-boundary sub-step
\* it has gone through.
SendsDue(r) ==
    iter[r] \div steps_per_frame
    + (IF FrameBoundary(r) /\ Label(r) = "sub_step_update" THEN 1 ELSE 0)

\* C7 as claimed: between the issue of a coordinate send and the wait for
\* it the rank executes at least one full sub-step, gravity to position
\* commit.
C7_FullCycleOverlap ==
    \A r \in LoopRanks : wait_gap[r] # <<"none">> => HoldsFullCycle(wait_gap[r])

\* C7 as amended: the coordinate send is issued once per frame, in the
\* frame-boundary sub-step, and is waited for in the next loop iteration
\* after apply_gravity and predict_positions: these two phases are all the
\* rank executes while the send is outstanding.
C7_WaitAfterPredict ==
    \A r \in LoopRanks :
        /\ nsend[r] = SendsDue(r)
        /\ wait_gap[r] \in {<<"none">>, <<"apply_gravity", "predict_positions">>}
        /\ coords_req[r] = "active"
              => /\ IsPrefix(since_send[r], <<"apply_gravity", "predict_positions">>)
                 /\ sub_step[r] = 0 \/ Label(r) = "sub_step_update"

\* C7 witness: a rank has waited for a coordinate send and is past the
\* migration of that sub-step.
C7_Witness ==
    \E r \in LoopRanks :
        /\ wait_gap[r] = <<"apply_gravity", "predict_positions">>
        /\ nsend[r] >= 1
        /\ Label(r) = "find_all_neighbors"

\* Where the scatter stands in the statements of an iteration.
ScatterAt == CHOOSE i \in 1 .. ProgramLen : Program[i] = "MPI_Scatterv"

Count(seq, name) == Cardinality({i \in 1 .. Len(seq) : seq[i] = name})

\* The rank is past the scatter of the iteration it is in, or left the loop
\* behind it.
PastScatter(r) == Exited(r) \/ pc[r] > ScatterAt

\* A step in which a rank takes a tunables record, or its copy of kill_sim
\* changes, is the scatter of a frame-boundary sub-step.
TunablesFromScatterOnly ==
    \A r \in LoopRanks :
        ((mailbox[r] # "empty" /\ mailbox'[r] = "empty")
             \/ kill_sim'[r] # kill_sim[r])
            => /\ Label(r) = "MPI_Scatterv"
               /\ FrameBoundary(r)
               /\ kill_sim'[r] = (mailbox[r] = "kill")

\* A step changes sub_step only at the end of an iteration, by one or back
\* to 0 from steps_per_frame-1.
SubStepAdvances ==
    \A r \in LoopRanks :
        sub_step'[r] # sub_step[r]
            => /\ Label(r) = "sub_step_update"
               /\ iter'[r] = iter[r] + 1
               /\ sub_step'[r] = (sub_step[r] + 1) % steps_per_frame

\* Within an iteration: one scatter and one send in the frame-boundary
\* sub-step, the send after the scatter, none in the other sub-steps.
OncePerFrame ==
    \A r \in LoopRanks :
        /\ sub_step[r] \in 0 .. (steps_per_frame - 1)
        /\ sub_step[r] = iter[r] % steps_per_frame
        /\ Count(phases[r], "MPI_Scatterv")
              = (IF FrameBoundary(r) /\ PastScatter(r) THEN 1 ELSE 0)
        /\ Count(phases[r], "MPI_Isend")
              = (IF FrameBoundary(r) /\ Label(r) = "sub_step_update" THEN 1 ELSE 0)
        /\ \A i, j \in 1 .. Len(phases[r]) :
              (phases[r][i] = "MPI_Isend" /\ phases[r][j] = "MPI_Scatterv") => j < i
        /\ nsend[r] = SendsDue(r)

\* C18: sub_step stays in 0..steps_per_frame-1, advances by one per
\* iteration and wraps to 0; a rank's tunables are written only by the
\* scatter, once per steps_per_frame iterations, in the iteration with
\* sub_step == steps_per_frame-1; the coordinate send happens once in that
\* iteration, after the scatter.
C18_SubStepAndFrame ==
    /\ []OncePerFrame
    /\ [][TunablesFromScatterOnly /\ SubStepAdvances]_vars

\* C18 witness: with steps_per_frame = 2 a rank has gone through an inner
\* and a frame-boundary sub-step, with one scatter and one send, and
\* sub_step is back at 0.
C18_Witness ==
    \E r \in LoopRanks :
        /\ steps_per_frame = 2
        /\ iter[r] = 2
        /\ sub_step[r] = 0
        /\ nsend[r] = 1

\* C20: a rank packs the coordinate buffer and issues MPI_Isend only when
\* no send is outstanding, the MPI_Wait of the previous send having
\* completed, and no send is outstanding when the rank has left the loop.
C20_OneSendOutstanding ==
    \A r \in LoopRanks :
        /\ (Label(r) = "MPI_Isend" /\ FrameBoundary(r)) => coords_req[r] = "null"
        /\ Exited(r) => coords_req[r] = "null"
        /\ (coords_req[r] = "active") => nsend[r] >= 1
        /\ (Label(r) = "MPI_Isend" /\ FrameBoundary(r) /\ nsend[r] >= 1)
              => wait_gap[r] # <<"none">>

\* C20 witness: a rank that has sent and waited before is about to pack and
\* send again.
C20_Witness ==
    \E r \in LoopRanks :
        /\ Label(r) = "MPI_Isend"
        /\ FrameBoundary(r)
        /\ nsend[r] >= 1
        /\ coords_req[r] = "null"

-----------------------------------------------------------------------------
(* The partition controller alone.                                         *)

InitPart == InitTable /\ IdleLoop /\ IdleSim /\ IdleExtra

NextPart ==
    \/ RemovePartition /\ UNCHANGED notPart
    \/ AddPartition /\ UNCHANGED notPart
    \/ DecreaseSmoothingRadius /\ UNCHANGED notPart
    \/ IncreaseSmoothingRadius /\ UNCHANGED notPart

SpecPart == InitPart /\ [][NextPart]_vars

-----------------------------------------------------------------------------
(* Properties of the partition controller, checked under SpecPart.         *)

LastLength(t) == t.ends[t.active - 1] - t.starts[t.active - 1]

\* The interval [s, e] has no point in [min_x, max_x].
OutsideDomain(s, e) == e < min_x \/ s > max_x

ValidTable(t) ==
    /\ t.active \in 1 .. NumProcs
    /\ t.starts[0] = min_x
    /\ \A i \in 0 .. (t.active - 1) : t.starts[i] < t.ends[i]
    /\ \A i \in 0 .. (t.active - 2) : t.ends[i] = t.starts[i + 1]
    /\ \A i \in t.active .. (NumProcs - 1) : OutsideDomain(t.starts[i], t.ends[i])

C8_AddNoop ==
    (last_op = "add" /\ (pre.active = NumProcs
                           \/ 2 * LastLength(pre) < 5 * pre.h))
        => CurTable = pre

\* C8 witness: add_partition was called with an inactive rank left and a
\* last interval narrower than 2.5 radii but at least one radius wide.
C8_Witness ==
    /\ last_op = "add"
    /\ pre.active < NumProcs
    /\ 2 * LastLength(pre) < 5 * pre.h
    /\ LastLength(pre) >= pre.h
    /\ pre.h > 0

\* C9: remove_partition called with exactly one active rank changes nothing
\* of proc_starts, proc_ends and num_compute_procs_active.
C9_RemoveNoop ==
    (last_op = "remove" /\ pre.active = 1) => CurTable = pre

\* C9 witness: remove_partition was called with one active rank.
C9_Witness == last_op = "remove" /\ pre.active = 1

\* C10: an add_partition that is not a no-op, with n the old active count
\* and [s, e] the old last interval, leaves rank n-1 with [s, m] and gives
\* rank n the interval [m, e], m the midpoint of s and e (to the model's
\* unit); the active count is n+1 and ranks 0..n-2 keep their intervals.
C10_AddSplits ==
    (last_op = "add" /\ pre.active < NumProcs
                     /\ 2 * LastLength(pre) >= 5 * pre.h)
        => LET n == pre.active
               s == pre.starts[n - 1]
               e == pre.ends[n - 1]
               m == proc_ends[n - 1]
           IN  /\ num_compute_procs_active = n + 1
               /\ proc_starts[n - 1] = s
               /\ proc_starts[n] = m
               /\ proc_ends[n] = e
               /\ (e - m) - (m - s) \in {0, 1}
               /\ \A i \in 0 .. (n - 2) :
                      /\ proc_starts[i] = pre.starts[i]
                      /\ proc_ends[i] = pre.ends[i]
               /\ proc_starts[0] = pre.starts[0]
               /\ proc_ends[num_compute_procs_active - 1] = pre.ends[n - 1]

\* C10 witness: add_partition activated a rank.
C10_Witness ==
    /\ last_op = "add"
    /\ num_compute_procs_active = pre.active + 1
    /\ proc_starts[pre.active] < proc_ends[pre.active]

\* C11: remove_partition called with n >= 2 active ranks gives rank n-2 the
\* old end of rank n-1 and keeps its start, puts start and end of rank n-1
\* beyond max_x, makes the active count n-1 and keeps the intervals of ranks
\* 0..n-3, so the active intervals cover what they covered before.
C11_RemoveMerges ==
    (last_op = "remove" /\ pre.active >= 2)
        => LET n == pre.active
           IN  /\ num_compute_procs_active = n - 1
               /\ proc_ends[n - 2] = pre.ends[n - 1]
               /\ proc_starts[n - 2] = pre.starts[n - 2]
               /\ proc_starts[n - 1] > max_x
               /\ proc_ends[n - 1] > max_x
               /\ OutsideDomain(proc_starts[n - 1], proc_ends[n - 1])
               /\ \A i \in 0 .. (n - 3) :
                      /\ proc_starts[i] = pre.starts[i]
                      /\ proc_ends[i] = pre.ends[i]
               /\ proc_starts[0] = pre.starts[0]
               /\ proc_ends[num_compute_procs_active - 1] = pre.ends[n - 1]

\* C11 witness: remove_partition merged the last of three or more active
\* intervals into its left neighbour.
C11_Witness ==
    /\ last_op = "remove"
    /\ pre.active >= 3
    /\ num_compute_procs_active = pre.active - 1
    /\ proc_ends[pre.active - 2] > pre.ends[pre.active - 2]


-----------------------------------------------------------------------------
(* Properties of the migration.                                            *)

InInterval(r, p) == node_start_x[r] <= px[p] /\ px[p] <= node_end_x[r]

Owners(p) == {r \in Ranks : p \in SeqRange(particles[r])}

\* C3: when neighbor search is about to run, every local particle's x lies
\* inside its rank's interval [node_start_x, node_end_x].
C3_NoMisassignedAtSearch ==
    sim_pc = "find_all_neighbors" =>
        \A r \in Ranks : \A p \in SeqRange(particles[r]) : InInterval(r, p)

\* C4: the migration of a sub-step keeps the sum of
\* number_fluid_particles_local over the ranks, and leaves every particle in
\* the list of exactly one rank, once.
C4_MigrationConserves ==
    sim_pc = "find_all_neighbors" =>
        /\ TotalLocal = count_before
        /\ \A p \in ParticleIds :
              /\ Cardinality(Owners(p)) = 1
              /\ \A r \in Owners(p) :
                    Len(SelectSeq(particles[r], LAMBDA q : q = p)) = 1

\* A migration that sent a particle left and a particle right.
C4_Witness ==
    /\ sim_pc = "find_all_neighbors"
    /\ moved[1] > 0
    /\ moved[2] > 0
    /\ TotalLocal = NumParticles

-----------------------------------------------------------------------------
(* The controls of rest density and smoothing radius alone.                *)

IncreaseDensity ==
    /\ rest_density' = increase_density(rest_density)
    /\ UNCHANGED <<partVars, loopVars, simVars, ptVars, hvVars, dnVars, moreVars>>

DecreaseDensity ==
    /\ rest_density' = decrease_density(rest_density)
    /\ UNCHANGED <<partVars, loopVars, simVars, ptVars, hvVars, dnVars, moreVars>>

InitTune == InitTable /\ IdleLoop /\ IdleSim /\ IdleExtra

NextTune ==
    \/ IncreaseDensity
    \/ DecreaseDensity
    \/ DecreaseSmoothingRadius /\ UNCHANGED notPart
    \/ IncreaseSmoothingRadius /\ UNCHANGED notPart

SpecTune == InitTune /\ [][NextTune]_vars

\* C15: after any sequence of increase_density, decrease_density,
\* increase_smoothing_radius and decrease_smoothing_radius calls that starts
\* from positive values, rest_density and smoothing_radius are positive.
C15_DivisorsPositive == rest_density > 0 /\ smoothing_radius > 0

-----------------------------------------------------------------------------
(* One particle: predict_positions, update_dp_positions, updateVelocity    *)
(* and update_positions, with boundaryConditions and checkVelocity.        *)

\* Sub-steps the particle is followed through.
MaxParticleSteps == 1

min_y == 0
max_y == 8 * One

\* tunable_params.time_step
TimeStep == One \div 10

\* The movers tried: none, one inside the domain, one across the left wall
\* and one across the right and the top wall.
Movers ==
    {[center_x |-> 6 * One, center_y |-> 4 * One, width |-> 0],
     [center_x |-> 6 * One, center_y |-> 4 * One, width |-> 4 * One],
     [center_x |-> One, center_y |-> 6 * One, width |-> 6 * One],
     [center_x |-> 11 * One, center_y |-> 7 * One, width |-> 4 * One]}

\* Committed positions the particle starts from.
StartXs == {min_x, 6 * One, 11 * One}
StartYs == {One, 7 * One}

\* v*dt of predict_positions and the dp of the solver.
PredictMoves ==
    {<<0, 0>>, <<One, 0>>, <<14 * One, 14 * One>>, <<0 - 14 * One, 0 - One>>}
DpMoves == {<<0, 0>>, <<2 * One, 0 - 2 * One>>}

\* a / b rounded to the nearest unit, b > 0.
RoundDiv(a, b) == (2 * a + b) \div (2 * b)

\* The largest k in lo .. hi with k * k <= n.
RECURSIVE SqrtBetween(_, _, _)
SqrtBetween(n, lo, hi) ==
    IF lo >= hi THEN lo
    ELSE LET mid == (lo + hi + 1) \div 2
         IN  IF mid * mid <= n THEN SqrtBetween(n, mid, hi)
             ELSE SqrtBetween(n, lo, mid - 1)

\* boundaryConditions, y axis: the clamp to the global boundary.
BoundaryClampY(y) ==
    IF y < min_y THEN min_y
    ELSE IF y > max_y THEN max_y - ClampEps
    ELSE y

\* The push out of the mover circle: a position inside the circle, and not
\* on its centre, is moved along the ray from the centre onto the circle.
MoverPush(xs, ys, m) ==
    LET radius == m.width \div 2
        d2 == (xs - m.center_x) * (xs - m.center_x)
              + (ys - m.center_y) * (ys - m.center_y)
    IN  IF d2 <= radius * radius /\ d2 > 0
        THEN LET d == SqrtBetween(d2, 1, radius)
                 pen_dist == radius - d
             IN  <<xs - RoundDiv(pen_dist * (m.center_x - xs), d),
                   ys - RoundDiv(pen_dist * (m.center_y - ys), d)>>
        ELSE <<xs, ys>>

\* boundaryConditions with the clamp before the mover push.
boundaryConditions_clamp_first(xs, ys, m) ==
    MoverPush(BoundaryClampX(xs), BoundaryClampY(ys), m)

\* boundaryConditions: the predicted position it leaves.
boundaryConditions(xs, ys, m) ==
    LET pushed == MoverPush(xs, ys, m)
    IN  <<BoundaryClampX(pushed[1]), BoundaryClampY(pushed[2])>>

v_max == 20 * One

\* checkVelocity with the y axis looked at only when x was in range.
checkVelocity_chained(vx, vy) ==
    IF vx > v_max THEN <<v_max, vy>>
    ELSE IF vx < 0 - v_max THEN <<0 - v_max, vy>>
    ELSE IF vy > v_max THEN <<vx, v_max>>
    ELSE IF vy < 0 - v_max THEN <<vx, 0 - v_max>>
    ELSE <<vx, vy>>

\* checkVelocity
checkVelocity(vx, vy) ==
    <<IF vx > v_max THEN v_max ELSE IF vx < 0 - v_max THEN 0 - v_max ELSE vx,
      IF vy > v_max THEN v_max ELSE IF vy < 0 - v_max THEN 0 - v_max ELSE vy>>

ptOthers == <<partVars, loopVars, simVars, tuneVars, hvVars, dnVars, moreVars>>

\* predict_positions: x_star = x + v_x*dt, then boundaryConditions.
PtPredictPositions ==
    /\ pt_pc = "predict_positions"
    /\ pt_steps < MaxParticleSteps
    /\ \E mv \in PredictMoves :
          LET bc == boundaryConditions(p_x + mv[1], p_y + mv[2], mover)
          IN  x_star' = bc[1] /\ y_star' = bc[2]
    /\ pt_pc' = "update_dp_positions"
    /\ pt_si' = 0
    /\ pt_last' = "boundaryConditions"
    /\ UNCHANGED <<p_x, p_y, v_x, v_y, mover, pt_steps, v_in>>
    /\ UNCHANGED ptOthers

\* update_dp_positions of one solve iteration: x_star += dp_x, then
\* boundaryConditions.
PtUpdateDpPositions ==
    /\ pt_pc = "update_dp_positions"
    /\ \E dp \in DpMoves :
          LET bc == boundaryConditions(x_star + dp[1], y_star + dp[2], mover)
          IN  x_star' = bc[1] /\ y_star' = bc[2]
    /\ pt_si' = pt_si + 1
    /\ pt_pc' = IF pt_si + 1 = solve_iterations THEN "updateVelocities"
                ELSE "update_dp_positions"
    /\ pt_last' = "boundaryConditions"
    /\ UNCHANGED <<p_x, p_y, v_x, v_y, mover, pt_steps, v_in>>
    /\ UNCHANGED ptOthers

\* updateVelocity: v = (x_star - x)/dt, then checkVelocity.
PtUpdateVelocity ==
    /\ pt_pc = "updateVelocities"
    /\ LET vx == ((x_star - p_x) * One) \div TimeStep
           vy == ((y_star - p_y) * One) \div TimeStep
           cv == checkVelocity(vx, vy)
       IN  /\ v_in' = <<vx, vy>>
           /\ v_x' = cv[1]
           /\ v_y' = cv[2]
    /\ pt_pc' = "update_positions"
    /\ pt_last' = "updateVelocity"
    /\ UNCHANGED <<p_x, p_y, x_star, y_star, mover, pt_si, pt_steps>>
    /\ UNCHANGED ptOthers

\* update_positions: the predicted position is committed.
PtUpdatePositions ==
    /\ pt_pc = "update_positions"
    /\ p_x' = x_star
    /\ p_y' = y_star
    /\ pt_pc' = "predict_positions"
    /\ pt_steps' = pt_steps + 1
    /\ pt_last' = "update_positions"
    /\ UNCHANGED <<x_star, y_star, v_x, v_y, mover, pt_si, v_in>>
    /\ UNCHANGED ptOthers

InitParticle ==
    /\ IdlePart /\ IdleLoop /\ IdleSim /\ IdleTune /\ IdleHv /\ IdleDn /\ IdleMore
    /\ p_x \in StartXs
    /\ p_y \in StartYs
    /\ x_star = p_x
    /\ y_star = p_y
    /\ v_x = 0
    /\ v_y = 0
    /\ mover \in Movers
    /\ pt_pc = "predict_positions"
    /\ pt_si = 0
    /\ pt_steps = 0
    /\ pt_last = "none"
    /\ v_in = <<0, 0>>

NextParticle ==
    \/ PtPredictPositions
    \/ PtUpdateDpPositions
    \/ PtUpdateVelocity
    \/ PtUpdatePositions

SpecParticle == InitParticle /\ [][NextParticle]_vars

InsideBoundary(x, y) ==
    /\ min_x <= x /\ x <= max_x
    /\ min_y <= y /\ y <= max_y

\* C12: after update_positions the committed position lies inside the global
\* boundary, min_x <= x <= max_x and min_y <= y <= max_y.
C12_CommittedInside ==
    pt_last = "update_positions" => InsideBoundary(p_x, p_y)

\* C12 witness: a committed position on the clamp of the max edge while the
\* mover circle is in use.
C12_Witness ==
    /\ pt_last = "update_positions"
    /\ p_x = max_x - ClampEps
    /\ mover.width > 0
    /\ InsideBoundary(p_x, p_y)

\* C13: the predicted position boundaryConditions has just left is not moved
\* by applying boundaryConditions again.
C13_BoundaryIdempotent ==
    pt_last = "boundaryConditions"
        => boundaryConditions(x_star, y_star, mover) = <<x_star, y_star>>

\* C14: checkVelocity gives +20 on an axis above +20, -20 on an axis below
\* -20 and the component itself otherwise, whatever the other axis holds.
C14_VelocityClamp ==
    pt_last = "updateVelocity"
        => /\ v_x = (IF v_in[1] > v_max THEN v_max
                     ELSE IF v_in[1] < 0 - v_max THEN 0 - v_max ELSE v_in[1])
           /\ v_y = (IF v_in[2] > v_max THEN v_max
                     ELSE IF v_in[2] < 0 - v_max THEN 0 - v_max ELSE v_in[2])

\* C14 witness: both axes were out of range, in opposite directions.
C14_Witness ==
    /\ pt_last = "updateVelocity"
    /\ v_in[1] > v_max
    /\ v_in[2] < 0 - v_max
    /\ v_x = v_max
    /\ v_y = 0 - v_max

\* C16: the predicted position boundaryConditions leaves is strictly below
\* the max edges, x_star < max_x and y_star < max_y.
C16_StrictlyBelowMax ==
    pt_last = "boundaryConditions" => (x_star < max_x /\ y_star < max_y)

-----------------------------------------------------------------------------
(* Local and halo velocities of one rank: finish_halo_exchange,            *)
(* find_all_neighbors, updateVelocities, XSPH_viscosity.                   *)

\* Local and halo particles a rank holds at most.
MaxLocal == 2
MaxHalo == 2

\* The slots of fluid_particle_pointers: the local particles, then the halo.
Slots(nl, nh) == 1 .. (nl + nh)

\* updateVelocities stopping at number_fluid_particles_local.
updateVelocities_local_only(nl, nh) == 1 .. nl

\* updateVelocities: the slots its loop hands to updateVelocity.
updateVelocities(nl, nh) == 1 .. (nl + nh)

\* XSPH_viscosity: the slots whose v_x, v_y it reads, the local particles and
\* their listed neighbors.
XSPH_viscosity(nl, nbrs) == (1 .. nl) \cup UNION {nbrs[i] : i \in 1 .. nl}

hvOthers == <<partVars, loopVars, simVars, tuneVars, ptVars, dnVars, moreVars>>

\* The migration and the halo exchange of a sub-step: the local count may
\* change, the halo is rebuilt; every velocity held now is of an earlier
\* sub-step.
HvFinishHaloExchange ==
    /\ hv_pc = "finish_halo_exchange"
    /\ \E nl \in 1 .. MaxLocal, nh \in 0 .. MaxHalo :
          /\ n_local' = nl
          /\ n_halo' = nh
          /\ v_fresh' = [s \in Slots(nl, nh) |-> FALSE]
          /\ neighbors' = [i \in 1 .. nl |-> {}]
    /\ hv_pc' = "find_all_neighbors"
    /\ hv_read' = {}
    /\ UNCHANGED hvOthers

\* find_all_neighbors: every local particle gets a list of other slots.
HvFindAllNeighbors ==
    /\ hv_pc = "find_all_neighbors"
    /\ \E nbrs \in [1 .. n_local -> SUBSET Slots(n_local, n_halo)] :
          /\ \A i \in 1 .. n_local : i \notin nbrs[i]
          /\ neighbors' = nbrs
    /\ hv_pc' = "updateVelocities"
    /\ UNCHANGED <<n_local, n_halo, v_fresh, hv_read>>
    /\ UNCHANGED hvOthers

HvUpdateVelocities ==
    /\ hv_pc = "updateVelocities"
    /\ v_fresh' = [s \in Slots(n_local, n_halo) |->
                      v_fresh[s] \/ s \in updateVelocities(n_local, n_halo)]
    /\ hv_pc' = "XSPH_viscosity"
    /\ UNCHANGED <<n_local, n_halo, neighbors, hv_read>>
    /\ UNCHANGED hvOthers

HvXSPHViscosity ==
    /\ hv_pc = "XSPH_viscosity"
    /\ hv_read' = XSPH_viscosity(n_local, neighbors)
    /\ hv_pc' = "update_positions"
    /\ UNCHANGED <<n_local, n_halo, neighbors, v_fresh>>
    /\ UNCHANGED hvOthers

\* update_positions and the start of the next sub-step.
HvUpdatePositions ==
    /\ hv_pc = "update_positions"
    /\ hv_pc' = "finish_halo_exchange"
    /\ UNCHANGED <<n_local, n_halo, neighbors, v_fresh, hv_read>>
    /\ UNCHANGED hvOthers

InitHv ==
    IdlePart /\ IdleLoop /\ IdleSim /\ IdleTune /\ IdlePt /\ IdleHv /\ IdleDn /\ IdleMore

NextHv ==
    \/ HvFinishHaloExchange
    \/ HvFindAllNeighbors
    \/ HvUpdateVelocities
    \/ HvXSPHViscosity
    \/ HvUpdatePositions

SpecHv == InitHv /\ [][NextHv]_vars

\* C17: every velocity XSPH_viscosity read, of a local or of a halo
\* particle, was written by updateVelocity in the same sub-step.
C17_VelocitiesFresh ==
    hv_pc = "update_positions" => \A s \in hv_read : v_fresh[s]

\* C17 witness: XSPH_viscosity read the velocity of a halo particle.
C17_Witness ==
    /\ hv_pc = "update_positions"
    /\ n_halo > 0
    /\ \E s \in hv_read : s > n_local

-----------------------------------------------------------------------------
(* compute_densities over the solve iterations of a sub-step.              *)

\* Slots of fluid_particle_pointers in the density model: two local
\* particles, then the halo.
NumDensitySlots == 3

DensitySlots == 1 .. NumDensitySlots
DensityLocal == {1, 2}

\* params->particle_mass
particle_mass == 2 * One

\* Predicted positions tried: slot 1 stays at the first; the others are on
\* it, 0.3 beside it, 0.4 beside it and 0.5 away from it.
DensityHome == <<One, One>>
DensityPlaces ==
    {DensityHome, <<One + 3 * RadiusStep, One>>, <<One + 4 * RadiusStep, One>>,
     <<One + 3 * RadiusStep, One + 4 * RadiusStep>>}

\* The smoothing radius of the density model: 0.4.
DensityRadii == {InitRadius}

\* Densities the particles may hold before the first call.
DensityBefore == {0, 9 * One}

\* sqrt(x_diff*x_diff + y_diff*y_diff) of two predicted positions, to the
\* unit below.
r_mag(a, b) ==
    LET x_diff == a[1] - b[1]
        y_diff == a[2] - b[2]
    IN  SqrtBetween(x_diff * x_diff + y_diff * y_diff, 0, 4 * One)

\* W: 4/(pi h^8) * (h^2 - r^2)^3 for r <= h, 0 beyond, with 355/113 for pi;
\* evaluated as 4/(pi h^2) * ((h^2 - r^2)/h^2)^3 to stay in range.
W(r, h) ==
    IF r > h THEN 0
    ELSE LET q == ((h * h - r * r) * One) \div (h * h)
             cube == (q * q * q) \div (One * One)
         IN  (4 * 113 * cube * One) \div (355 * ((h * h) \div One))

\* calculate_density: the density of p after q's contribution.
calculate_density(dens, a, b, h, mass) ==
    IF r_mag(a, b) <= h THEN dens + (mass * W(r_mag(a, b), h)) \div One
    ELSE dens

\* The loop over the listed neighbors, from the first.
RECURSIVE NeighborContributions(_, _, _)
NeighborContributions(dens, i, list) ==
    IF list = <<>> THEN dens
    ELSE NeighborContributions(
             calculate_density(dens, dn_pos[i], dn_pos[Head(list)], dn_h,
                               particle_mass),
             i, Tail(list))

\* compute_densities without "p->density = 0.0f".
compute_densities_no_reset(i) ==
    NeighborContributions(
        calculate_density(density[i], dn_pos[i], dn_pos[i], dn_h, particle_mass),
        i, SeqOfSet(dn_neighbors[i]))

\* compute_densities, for the local particle in slot i: reset, own
\* contribution, neighbor contributions.
compute_densities(i) ==
    NeighborContributions(
        calculate_density(0, dn_pos[i], dn_pos[i], dn_h, particle_mass),
        i, SeqOfSet(dn_neighbors[i]))

dnOthers == <<partVars, loopVars, simVars, tuneVars, ptVars, hvVars, moreVars>>

DnComputeDensities ==
    /\ dn_last \in {"find_all_neighbors", "update_dp_positions"}
    /\ dn_si < solve_iterations
    /\ density' = [i \in DensityLocal |-> compute_densities(i)]
    /\ dn_si' = dn_si + 1
    /\ dn_last' = "compute_densities"
    /\ UNCHANGED <<dn_pos, dn_neighbors, dn_h>>
    /\ UNCHANGED dnOthers

\* The rest of a solve iteration: update_dp_positions and
\* update_halo_positions move the predicted positions.
DnUpdateDpPositions ==
    /\ dn_last = "compute_densities"
    /\ \E s \in DensitySlots \ {1}, pl \in DensityPlaces :
          dn_pos' = [dn_pos EXCEPT ![s] = pl]
    /\ dn_last' = "update_dp_positions"
    /\ UNCHANGED <<dn_neighbors, density, dn_h, dn_si>>
    /\ UNCHANGED dnOthers

\* The next sub-step up to find_all_neighbors: new neighbor lists.
DnFindAllNeighbors ==
    /\ dn_last = "update_dp_positions"
    /\ dn_si = solve_iterations
    /\ \E nbrs \in [DensityLocal -> SUBSET DensitySlots] :
          /\ \A i \in DensityLocal : i \notin nbrs[i]
          /\ dn_neighbors' = nbrs
    /\ dn_si' = 0
    /\ dn_last' = "find_all_neighbors"
    /\ UNCHANGED <<dn_pos, density, dn_h>>
    /\ UNCHANGED dnOthers

InitDensities ==
    /\ IdlePart /\ IdleLoop /\ IdleSim /\ IdleTune /\ IdlePt /\ IdleHv /\ IdleMore
    /\ dn_pos \in [DensitySlots -> DensityPlaces]
    /\ dn_pos[1] = DensityHome
    /\ dn_neighbors \in [DensityLocal -> SUBSET DensitySlots]
    /\ \A i \in DensityLocal : i \notin dn_neighbors[i]
    /\ density \in [DensityLocal -> DensityBefore]
    /\ dn_h \in DensityRadii
    /\ dn_si = 0
    /\ dn_last = "find_all_neighbors"

NextDensities ==
    \/ DnComputeDensities
    \/ DnUpdateDpPositions
    \/ DnFindAllNeighbors

SpecDensities == InitDensities /\ [][NextDensities]_vars

\* The listed neighbors of slot i at distance r <= h.
InReach(i) == {s \in dn_neighbors[i] : r_mag(dn_pos[i], dn_pos[s]) <= dn_h}

\* mass * W(r, h)
Contribution(r) == (particle_mass * W(r, dn_h)) \div One

\* C19: after compute_densities every local particle's density is one
\* self-contribution mass*W(0,h) plus mass*W(r,h) for every listed neighbor
\* at distance r <= h, whatever the density was before and in whichever
\* solve iteration; with no neighbors it is mass*W(0,h).
C19_DensityOverwritten ==
    dn_last = "compute_densities"
        => \A i \in DensityLocal :
              /\ density[i]
                    = Contribution(0)
                      + SumOver([s \in DensitySlots |->
                                    Contribution(r_mag(dn_pos[i], dn_pos[s]))],
                                InReach(i))
              /\ dn_neighbors[i] = {} => density[i] = Contribution(0)

\* C19 witness: in a later solve iteration a particle with one listed
\* neighbor inside h and one beyond h, and a particle with no neighbors.
C19_Witness ==
    /\ dn_last = "compute_densities"
    /\ dn_si >= 2
    /\ \E i \in DensityLocal :
          /\ InReach(i) # {}
          /\ InReach(i) # dn_neighbors[i]
          /\ density[i] > Contribution(0)
    /\ \E i \in DensityLocal :
          dn_neighbors[i] = {} /\ density[i] = Contribution(0)

\* ---------------------------------------------------------------------------
\* The partition controller with two steps of history
\* ---------------------------------------------------------------------------

rtOthers == <<loopVars, simVars, tuneVars, ptVars, hvVars, dnVars, obVars, gravVars>>

\* Every call shifts the history by one: rt_prev takes what last_op and pre held.
RtShift == rt_prev' = [op |-> last_op, table |-> pre]

RtRemovePartition ==
    RemovePartition /\ RtShift /\ UNCHANGED rtOthers

RtAddPartition ==
    AddPartition /\ RtShift /\ UNCHANGED rtOthers

RtDecreaseSmoothingRadius ==
    DecreaseSmoothingRadius /\ RtShift /\ UNCHANGED rtOthers

RtIncreaseSmoothingRadius ==
    IncreaseSmoothingRadius /\ RtShift /\ UNCHANGED rtOthers

InitRoundTrip == InitTable /\ IdleLoop /\ IdleSim /\ IdleExtra

NextRoundTrip ==
    \/ RtRemovePartition
    \/ RtAddPartition
    \/ RtDecreaseSmoothingRadius
    \/ RtIncreaseSmoothingRadius

SpecRoundTrip == InitRoundTrip /\ [][NextRoundTrip]_vars

\* The last two calls were an add_partition that added a rank and then a
\* remove_partition.
AddThenRemove ==
    /\ last_op = "remove"
    /\ rt_prev.op = "add"
    /\ pre.active = rt_prev.table.active + 1

\* C21: a successful add_partition immediately followed by remove_partition
\* restores num_compute_procs_active and the start and end of every active
\* interval to their values before the add.
C21_AddRemoveRoundTrip ==
    AddThenRemove
        => /\ num_compute_procs_active = rt_prev.table.active
           /\ \A i \in 0 .. (num_compute_procs_active - 1) :
                  /\ proc_starts[i] = rt_prev.table.starts[i]
                  /\ proc_ends[i] = rt_prev.table.ends[i]

\* An add that split a last interval and the remove after it have both run.
C21_Witness ==
    /\ AddThenRemove
    /\ pre.ends[pre.active - 2] < pre.ends[pre.active - 1]
    /\ num_compute_procs_active < pre.active

\* The indices the last call used on the table it was given.
IndicesOfLastCall ==
    IF last_op = "remove" THEN remove_partition_indices(pre)
    ELSE IF last_op = "add" THEN add_partition_indices(pre)
    ELSE {}

\* C22: after any sequence of add_partition and remove_partition calls the
\* active count is in 1..num_compute_procs, and every index a call used on
\* proc_starts and proc_ends is in 0..num_compute_procs-1.
C22_CountAndIndicesInRange ==
    /\ num_compute_procs_active \in 1 .. NumProcs
    /\ IndicesOfLastCall \subseteq Ranks

\* An add that wrote the highest rank's entries came after a remove that
\* had taken that rank away.
C22_Witness ==
    /\ last_op = "add"
    /\ rt_prev.op = "remove"
    /\ num_compute_procs_active = NumProcs
    /\ IndicesOfLastCall = {NumProcs - 2, NumProcs - 1}

\* ---------------------------------------------------------------------------
\* The out-of-bounds lists across sub-steps
\* ---------------------------------------------------------------------------

\* The sub-steps the lists are followed over.
MaxOobSubSteps == 3

\* identify_oob_particles with only number_oob_particles_left set to 0
reset_oob_left_only(lists) == [lists EXCEPT !.left = <<>>]

\* "out_of_bounds->number_oob_particles_left = 0" and the same for right:
\* the lists of the sub-step before are dropped.
reset_oob(lists) == [lists EXCEPT !.left = <<>>, !.right = <<>>]

\* The scan of rank r's local particles appends to the lists it is given.
append_oob(lists, r) ==
    [left |-> lists.left \o identify_oob_particles(r).left,
     right |-> lists.right \o identify_oob_particles(r).right]

\* The tables a scatter can hand to the ranks: the full one and the ones
\* remove_partition makes of it.
OobTables ==
    LET full == Table(InitStarts, InitEnds, NumProcs, SimRadius)
    IN  {full, remove_partition(full), remove_partition(remove_partition(full))}

obOthers == <<partVars, loopVars, tuneVars, ptVars, hvVars, dnVars, rtVars, gravVars>>

\* The scatter: the ranks take the intervals of the table they receive.
OobScatterv ==
    /\ sim_pc = "MPI_Scatterv"
    /\ sim_pc' = "identify_oob_particles"
    /\ \E t \in OobTables :
          /\ node_start_x' = t.starts
          /\ node_end_x' = t.ends
    /\ UNCHANGED <<particles, px, sim_sub_step, ops_in_frame, count_before, moved>>
    /\ UNCHANGED obVars
    /\ UNCHANGED obOthers

\* identify_oob_particles on every rank: reset, scan, transfer.
OobIdentifyOobParticles ==
    /\ sim_pc = "identify_oob_particles"
    /\ sim_pc' = "update_positions"
    /\ out_of_bounds' = [r \in Ranks |-> append_oob(reset_oob(out_of_bounds[r]), r)]
    /\ ob_scanned' = particles
    /\ particles' = [r \in Ranks |-> transfer_OOB_particles(r)]
    /\ UNCHANGED <<px, node_start_x, node_end_x, sim_sub_step, ops_in_frame,
                   count_before, moved, ob_steps>>
    /\ UNCHANGED obOthers

\* The rest of the sub-step up to update_positions: every particle's
\* committed x moves by one of Moves and is clamped by boundaryConditions.
OobUpdatePositions ==
    /\ sim_pc = "update_positions"
    /\ ob_steps < MaxOobSubSteps
    /\ sim_pc' = "MPI_Scatterv"
    /\ ob_steps' = ob_steps + 1
    /\ \E d \in [ParticleIds -> Moves] :
          px' = [p \in ParticleIds |-> BoundaryClampX(px[p] + d[p])]
    /\ ob_scanned' = [r \in Ranks |-> <<>>]
    /\ UNCHANGED <<particles, node_start_x, node_end_x, sim_sub_step, ops_in_frame,
                   count_before, moved, out_of_bounds>>
    /\ UNCHANGED obOthers

InitOob == InitSim

NextOob ==
    \/ OobScatterv
    \/ OobIdentifyOobParticles
    \/ OobUpdatePositions

SpecOob == InitOob /\ [][NextOob]_vars

StrictlyIncreasing(q) == \A j \in 1 .. (Len(q) - 1) : q[j] < q[j + 1]

\* The lists of rank r match the committed x of the particles it scanned.
Classified(r) ==
    LET n == Len(ob_scanned[r])
        x(i) == px[ob_scanned[r][i + 1]]
        L == out_of_bounds[r].left
        R == out_of_bounds[r].right
    IN  /\ \A i \in 0 .. (n - 1) :
              /\ i \in SeqRange(L) <=> x(i) < node_start_x[r]
              /\ i \in SeqRange(R) <=> x(i) > node_end_x[r]
              /\ i \notin SeqRange(L) \cup SeqRange(R)
                     <=> (node_start_x[r] <= x(i) /\ x(i) <= node_end_x[r])
        /\ SeqRange(L) \cap SeqRange(R) = {}
        /\ StrictlyIncreasing(L) /\ StrictlyIncreasing(R)
        /\ SeqRange(L) \cup SeqRange(R) \subseteq 0 .. (n - 1)
        /\ Len(L) + Len(R) <= n

\* C23: right after identify_oob_particles, on every rank an index is in the
\* left list iff the particle's x < node_start_x, in the right list iff
\* x > node_end_x, in neither iff node_start_x <= x <= node_end_x; no index is
\* in both lists, each list is strictly increasing with entries below
\* number_fluid_particles_local, and the counts sum to at most that number.
C23_OobClassified ==
    sim_pc = "update_positions" => \A r \in Ranks : Classified(r)

\* A scan has queued particles of one rank to both sides.
C23_Witness ==
    /\ sim_pc = "update_positions"
    /\ \E r \in Ranks : /\ Len(out_of_bounds[r].left) >= 1
                        /\ Len(out_of_bounds[r].right) >= 1

\* ---------------------------------------------------------------------------
\* The gravity control
\* ---------------------------------------------------------------------------

\* How far below zero g is followed, in whole units.
MaxGravityFollowed == 40

\* "static const float max_grav = -9.0f" and "min_grav = 9.0f"
max_grav == 0 - 9 * One
min_grav == 9 * One

\* TunableParameters::increase_gravity: "if(g > max_grav) g -= 1.0f"
increase_gravity(v) == IF v > max_grav THEN v - One ELSE v

\* TunableParameters::decrease_gravity: "if(g < min_grav) g -= 1.0f"
decrease_gravity(v) == IF v < min_grav THEN v - One ELSE v

\* The integral values in [-9, 9] gravity can start from.
GravityStarts == {k * One : k \in (0 - 9) .. 9}

gravOthers == <<partVars, loopVars, simVars, tuneVars, ptVars, hvVars, dnVars,
                rtVars, obVars>>

IncreaseGravity ==
    /\ g' = increase_gravity(g)
    /\ g_last' = [op |-> "increase_gravity", g |-> g]
    /\ UNCHANGED gravOthers

DecreaseGravity ==
    /\ g > 0 - MaxGravityFollowed * One
    /\ g' = decrease_gravity(g)
    /\ g_last' = [op |-> "decrease_gravity", g |-> g]
    /\ UNCHANGED gravOthers

InitGravity ==
    /\ InitTable /\ IdleLoop /\ IdleSim
    /\ IdleTune /\ IdlePt /\ IdleHv /\ IdleDn /\ IdleRt /\ IdleOb
    /\ g \in GravityStarts
    /\ g_last = [op |-> "none", g |-> g]

NextGravity ==
    \/ IncreaseGravity
    \/ DecreaseGravity

SpecGravity == InitGravity /\ [][NextGravity]_vars

\* C24: from an integral g in [-9, 9], after any sequence of
\* increase_gravity and decrease_gravity calls g is within [-9, 9], and
\* from the value the last call was given the two operations do not move g
\* to the same side.
C24_GravityInRange ==
    /\ max_grav <= g /\ g <= min_grav
    /\ g_last.op # "none"
           => (increase_gravity(g_last.g) - g_last.g)
                  * (decrease_gravity(g_last.g) - g_last.g) <= 0

=============================================================================
